---- MODULE Spec2Model ----
(***************************************************************************)
(* Model of the landing page (src/pages/index.js, function Home) and of    *)
(* the site configuration record (docusaurus.config.js).                   *)
(*                                                                         *)
(* Home is modelled in the order JavaScript evaluates its body: the        *)
(* context hook, the two useBaseUrl hooks inside the hero, the guard and   *)
(* the map of the features expression, the guard and the map of the        *)
(* components expression, and last the Layout element that is returned.    *)
(* The returned value is the React element tree: every element is a record *)
(* [tag, props, children] (plus key when the JSX gives one); a JavaScript  *)
(* value sitting in a child position is a record tagged "#text",           *)
(* "#number", "#false" or "#undefined".                                    *)
(*                                                                         *)
(* Strings are ASCII: the emoji and typographic characters of the shipped  *)
(* titles and contents are left out of the literals.                       *)
(***************************************************************************)
EXTENDS Integers, Sequences, FiniteSets, TLC

VARIABLES
    features,      \* module-level const features   (index.js:13)
    components,    \* module-level const components (index.js:30)
    config,        \* the evaluated configuration record (docusaurus.config.js:6)
    prevConfig,    \* the record the evaluation before the last one gave
    context,       \* what useDocusaurusContext() returns to Home
    pc,            \* position of the current Home call
    siteConfig,    \* local of Home (index.js:64)
    idx,           \* index handed to the running map callback
    row,           \* cards produced so far by the running map
    children,      \* children of <Layout> evaluated so far
    hooks,         \* hook calls made by the current Home call, in order
    out,           \* value returned by the last completed Home call
    prevOut,       \* value returned by the Home call before that
    renders        \* number of Home calls started

vars == <<features, components, config, prevConfig, context, pc, siteConfig,
          idx, row, children, hooks, out, prevOut, renders>>

(***************************************************************************)
(* Bounds of the model.                                                    *)
(***************************************************************************)
MaxFeatures == 2
MaxComponents == 2
MaxRenders == 2

(***************************************************************************)
(* JavaScript values in child position, and React elements.                *)
(***************************************************************************)
Undefined == [tag |-> "#undefined"]
False == [tag |-> "#false"]
Num(n) == [tag |-> "#number", value |-> n]
Text(s) == [tag |-> "#text", value |-> s]

Element(tag, props, kids) == [tag |-> tag, props |-> props, children |-> kids]
KeyedElement(tag, key, props, kids) ==
    [tag |-> tag, key |-> key, props |-> props, children |-> kids]

\* {} : the object without any property
EmptyObject == [x \in {} |-> x]

\* obj.name in child position: the string, or undefined when absent
Member(obj, name) == IF name \in DOMAIN obj THEN Text(obj[name]) ELSE Undefined

\* clsx(a, b) with two non-empty class names
clsx(a, b) == a \o " " \o b

\* NotRendered: no Home call has returned yet
NotRendered == [tag |-> "#none"]

\* NotEvaluated: the configuration module has been evaluated once only
NotEvaluated == [tag |-> "#none"]

(***************************************************************************)
(* String helpers.                                                         *)
(***************************************************************************)
Char(s, i) == SubSeq(s, i, i)

StartsWith(s, p) == Len(s) >= Len(p) /\ SubSeq(s, 1, Len(p)) = p

Alpha == {"a","b","c","d","e","f","g","h","i","j","k","l","m","n","o","p","q",
          "r","s","t","u","v","w","x","y","z","A","B","C","D","E","F","G","H",
          "I","J","K","L","M","N","O","P","Q","R","S","T","U","V","W","X","Y",
          "Z"}
Digit == {"0","1","2","3","4","5","6","7","8","9"}

\* scheme "://" host ... : the scheme is a letter followed by letters, digits,
\* "+", "-", "."; the host is not empty; the string holds no space
IsAbsoluteUrl(s) ==
    /\ \A j \in 1..Len(s) : Char(s, j) # " "
    /\ \E i \in 2..(Len(s) - 3) :
          /\ SubSeq(s, i, i + 2) = "://"
          /\ Char(s, 1) \in Alpha
          /\ \A j \in 1..(i - 1) : Char(s, j) \in Alpha \cup Digit \cup {"+", "-", "."}
          /\ Char(s, i + 3) \in Alpha \cup Digit

IsInternalRoute(s) == StartsWith(s, "/") /\ ~StartsWith(s, "//")

(***************************************************************************)
(* Shipped data of src/pages/index.js.                                     *)
(***************************************************************************)
featuresData ==
    << [title |-> "Less to Learn",
        content |-> "You don't need to learn and configure many build tools. Instant reloads help you focus on development. When it's time to deploy, your bundles are optimized automatically."],
       [title |-> "Only One Dependency",
        content |-> "Your app only needs one build dependency. We test Create React App to make sure that all of its underlying pieces work together seamlessly - no complicated version mismatches."],
       [title |-> "No Lock-In",
        content |-> "Under the hood, we use webpack, Babel, ESLint, and other amazing projects to power your app. If you ever want an advanced configuration, you can eject from Create React App and edit their config files directly."] >>

\* componentsData with one url written without its scheme
componentsDataSchemeless ==
    << [title |-> "supabase",
        content |-> "The open source Firebase alternative.",
        url |-> "https://supabase.com/"],
       [title |-> "What is RxDB",
        content |-> "A fast, local-first, reactive Database for JavaScript Applications",
        url |-> "rxdb.info/"] >>

componentsData ==
    << [title |-> "supabase",
        content |-> "The open source Firebase alternative. Supabase gives you a dedicated Postgres database to build your web, mobile, and AI applications.",
        url |-> "https://supabase.com/"],
       [title |-> "appwrite",
        content |-> "Appwrite is a backend platform for developing Web, Mobile, and Flutter applications. Built with the open source community ",
        url |-> "https://appwrite.io/"],
       [title |-> "What is RxDB",
        content |-> "A fast, local-first, reactive Database for JavaScript Applications",
        url |-> "https://rxdb.info/"],
       [title |-> "React Native Firebase",
        content |-> " A well-tested feature-rich modular Firebase implementation for React Native. Supports both iOS & Android platforms for all Firebase services..",
        url |-> "https://rnfirebase.io/"],
       [title |-> "angularfire ",
        content |-> "AngularFire smooths over the rough edges an Angular developer might encounter.",
        url |-> "https://firebaseopensource.com/"],
       [title |-> "flutterfire",
        content |-> " A collection of Firebase plugins for Flutter apps.",
        url |-> "https://firebase.google.com/docs/flutter/setup?platform=ios"] >>

(***************************************************************************)
(* The configuration record of docusaurus.config.js, evaluated in a year.  *)
(***************************************************************************)
\* navbarItems with an external link written without its scheme
navbarItemsSchemeless ==
    << [type |-> "docSidebar", sidebarId |-> "tutorialSidebar",
        position |-> "left", label |-> "Tutorial"],
       [to |-> "/blog", label |-> "Blog", position |-> "left"],
       [href |-> "www.543x.com", label |-> "Help", position |-> "right"] >>

navbarItems ==
    << [type |-> "docSidebar", sidebarId |-> "tutorialSidebar",
        position |-> "left", label |-> "Tutorial"],
       [to |-> "/blog", label |-> "Blog", position |-> "left"],
       [to |-> "/docs/next.js/getting-started/installation",
        label |-> "next.js", position |-> "right"],
       [to |-> "/docs/ChatGPT-Next-Web/cloudflare-pages-cn",
        label |-> "ChatGPT", position |-> "right"],
       [to |-> "/docs/verce/verceldocs/intro", label |-> "vercel",
        position |-> "right"],
       [href |-> "https://www.543x.com", label |-> "Help", position |-> "right"],
       [href |-> "https://github.com/teabagging/Create-React-App",
        label |-> "GitHub", position |-> "right"] >>

\* footerLinks with an item pointing inside the site by 'to' and without label
footerLinksInternalItem ==
    << [title |-> "Docs",
        items |-> << [label |-> "Get Started", href |-> "https://ai.543x.com"],
                     [to |-> "/docs/intro"] >>] >>

footerLinks ==
    << [title |-> "Docs",
        items |-> << [label |-> "Get Started", href |-> "https://ai.543x.com"],
                     [label |-> "Learn React", href |-> "https://r.543x.com"],
                     [label |-> "Quick Start", href |-> "https://e.543x.com"],
                     [label |-> "Logo by", href |-> "https://www.543x.com"] >>],
       [title |-> "Community",
        items |-> << [label |-> "you", href |-> "https://a.543x.com"],
                     [label |-> "GitHub Discussions",
                      href |-> "https://github.com/teabagging/Create-React-App"],
                     [label |-> "Pump", href |-> "https://pump.543x.com"],
                     [label |-> "Swap", href |-> "https://s.543x.com"] >>],
       [title |-> "Social",
        items |-> << [label |-> "GitHub",
                      href |-> "https://github.com/teabagging/Create-React-App"],
                     [label |-> "Conduct", href |-> "https://btc.543x.com"],
                     [label |-> "the Team", href |-> "https://eth.543x.com"],
                     [label |-> "Contributors", href |-> "https://bnb.543x.com"] >>],
       [title |-> "More",
        items |-> << [label |-> "Blog", href |-> "https://qq.543x.com"],
                     [label |-> "React Native", href |-> "https://doge.543x.com"],
                     [label |-> "PEPE", href |-> "https://pepe.543x.com"],
                     [label |-> "Privacy", href |-> "https://no.543x.com"] >>] >>

\* new Date().getFullYear() at the moment the module is evaluated
Years == {2025, 2026}

\* Config with a default locale that the list of locales does not hold
ConfigLocaleMismatch(year) ==
    [title |-> "Create React App",
     tagline |-> "Set up a modern web app by running one command.",
     url |-> "https://e.543x.com",
     baseUrl |-> "/",
     organizationName |-> "AI",
     projectName |-> "docusaurus",
     i18n |-> [defaultLocale |-> "zh-Hans", locales |-> <<"en">>],
     themeConfig |->
        [navbar |-> [title |-> "Create React App", items |-> navbarItems],
         footer |-> [style |-> "dark", links |-> footerLinks,
                     copyright |-> "Copyright (c) " \o ToString(year)
                                      \o " Facebook, Inc."]]]

\* Config with the year of the evaluation in a second field
ConfigStampedTagline(year) ==
    [title |-> "Create React App",
     tagline |-> "Set up a modern web app by running one command. " \o ToString(year),
     url |-> "https://e.543x.com",
     baseUrl |-> "/",
     organizationName |-> "AI",
     projectName |-> "docusaurus",
     i18n |-> [defaultLocale |-> "en", locales |-> <<"en">>],
     themeConfig |->
        [navbar |-> [title |-> "Create React App", items |-> navbarItems],
         footer |-> [style |-> "dark", links |-> footerLinks,
                     copyright |-> "Copyright (c) " \o ToString(year)
                                      \o " Facebook, Inc."]]]

Config(year) ==
    [title |-> "Create React App",
     tagline |-> "Set up a modern web app by running one command.",
     url |-> "https://e.543x.com",
     baseUrl |-> "/",
     organizationName |-> "AI",
     projectName |-> "docusaurus",
     i18n |-> [defaultLocale |-> "en", locales |-> <<"en">>],
     themeConfig |->
        [navbar |-> [title |-> "Create React App", items |-> navbarItems],
         footer |-> [style |-> "dark", links |-> footerLinks,
                     copyright |-> "Copyright (c) " \o ToString(year)
                                      \o " Facebook, Inc."]]]

(***************************************************************************)
(* Framework pieces Home calls.                                            *)
(***************************************************************************)
\* useDocusaurusContext(): the framework hands Home the site configuration,
\* or a context that carries none
Contexts == {"withSiteConfig", "withoutSiteConfig"}
useDocusaurusContext(kind, cfg) ==
    IF kind = "withSiteConfig" THEN [siteConfig |-> cfg] ELSE [siteMetadata |-> EmptyObject]

\* useBaseUrl(url): an empty, fragment or absolute url is returned as it is,
\* any other is joined to the site's baseUrl without doubling the slash
useBaseUrl(url) ==
    IF url = "" \/ StartsWith(url, "#") \/ IsAbsoluteUrl(url)
    THEN url
    ELSE config.baseUrl \o (IF StartsWith(url, "/") THEN SubSeq(url, 2, Len(url)) ELSE url)

(***************************************************************************)
(* The JSX of Home, piece by piece.                                        *)
(***************************************************************************)
\* Hero sending its button to the first link card's site when there is one
HeroLinkingFirstComponent(logoSrc, ctaTo, sc) ==
    Element("div", [className |-> clsx("hero hero--dark", "heroBanner")],
      << Element("div", [className |-> "container"],
           << Element("img", [className |-> clsx("heroBannerLogo", "margin-vert--md"),
                              alt |-> "Create React App logo",
                              src |-> logoSrc], <<>>),
              Element("h1", [className |-> "hero__title"], << Member(sc, "title") >>),
              Element("p", [className |-> "hero__subtitle"], << Member(sc, "tagline") >>),
              Element("div", [className |-> "getStarted"],
                << Element("Link",
                     [className |-> "button button--outline button--primary button--lg",
                      to |-> IF components # <<>> THEN components[1].url ELSE ctaTo],
                     << Text("Get Started") >>) >>) >>) >>)

\* index.js:71-89, once both useBaseUrl calls have returned
Hero(logoSrc, ctaTo, sc) ==
    Element("div", [className |-> clsx("hero hero--dark", "heroBanner")],
      << Element("div", [className |-> "container"],
           << Element("img", [className |-> clsx("heroBannerLogo", "margin-vert--md"),
                              alt |-> "Create React App logo",
                              src |-> logoSrc], <<>>),
              Element("h1", [className |-> "hero__title"], << Member(sc, "title") >>),
              Element("p", [className |-> "hero__subtitle"], << Member(sc, "tagline") >>),
              Element("div", [className |-> "getStarted"],
                << Element("Link",
                     [className |-> "button button--outline button--primary button--lg",
                      to |-> ctaTo],
                     << Text("Get Started") >>) >>) >>) >>)

\* FeatureCard keyed by something computed from the entry
FeatureCardKeyedByContent(entry, i) ==
    KeyedElement("div", Len(entry.title), [className |-> clsx("col col--4", "feature")],
      << Element("h2", EmptyObject, << Text(entry.title) >>),
         Element("p", EmptyObject, << Text(entry.content) >>) >>)

\* index.js:94-99, the callback of features.map, called with (entry, idx)
FeatureCard(entry, i) ==
    KeyedElement("div", i, [className |-> clsx("col col--4", "feature")],
      << Element("h2", EmptyObject, << Text(entry.title) >>),
         Element("p", EmptyObject, << Text(entry.content) >>) >>)

\* LinkCard as wide as half a row
LinkCardHalfRow(entry, i) ==
    KeyedElement("div", i, [className |-> clsx("col col--6", "feature")],
      << Element("div", [className |-> "card"],
           << Element("h3", EmptyObject, << Text(entry.title) >>),
              Element("p", EmptyObject, << Text(entry.content) >>),
              Element("Link", [className |-> "button button--primary",
                               to |-> entry.url],
                << Text("Visit website") >>) >>) >>)

\* LinkCard replacing a target that is no absolute URL
LinkCardValidated(entry, i) ==
    KeyedElement("div", i, [className |-> clsx("col col--4", "feature")],
      << Element("div", [className |-> "card"],
           << Element("h3", EmptyObject, << Text(entry.title) >>),
              Element("p", EmptyObject, << Text(entry.content) >>),
              Element("Link", [className |-> "button button--primary",
                               to |-> IF IsAbsoluteUrl(entry.url) THEN entry.url ELSE "#"],
                << Text("Visit website") >>) >>) >>)

\* index.js:109-119, the callback of components.map, called with (entry, idx)
LinkCard(entry, i) ==
    KeyedElement("div", i, [className |-> clsx("col col--4", "feature")],
      << Element("div", [className |-> "card"],
           << Element("h3", EmptyObject, << Text(entry.title) >>),
              Element("p", EmptyObject, << Text(entry.content) >>),
              Element("Link", [className |-> "button button--primary",
                               to |-> entry.url],
                << Text("Visit website") >>) >>) >>)

\* index.js:91-93 and 100-102 (106-108 and 120-122): the wrapper of a grid
Section(cards) ==
    Element("div", [className |-> "features"],
      << Element("div", [className |-> "container"],
           << Element("div", [className |-> "row"], cards) >>) >>)

\* index.js:67-70 and 124: the element Home returns
LayoutElement(kids) ==
    Element("Layout",
            [permalink |-> "/",
             description |-> "Set up a modern web app by running one command."],
            kids)

(***************************************************************************)
(* Inputs of the model.                                                    *)
(***************************************************************************)
FeatureEntries ==
    { [title |-> "Less to Learn", content |-> "You don't need to learn"],
      [title |-> "Less to Learn", content |-> "Instant reloads"],
      [title |-> "No Lock-In", content |-> "Under the hood"] }

LinkCardEntries ==
    { [title |-> "supabase", content |-> "The open source Firebase alternative.",
       url |-> "https://supabase.com/"],
      [title |-> "supabase", content |-> "The open source Firebase alternative.",
       url |-> "htp:/supabase com"],
      [title |-> "appwrite", content |-> "Appwrite is a backend platform", url |-> ""] }

SeqsUpTo(S, n) == UNION { [1..k -> S] : k \in 0..n }

(***************************************************************************)
(* State after the modules are loaded and before Home is first called.     *)
(***************************************************************************)
Loaded(f, c, year, ctx) ==
    /\ features = f
    /\ components = c
    /\ config = Config(year)
    /\ prevConfig = NotEvaluated
    /\ context = useDocusaurusContext(ctx, Config(year))
    /\ pc = "idle"
    /\ siteConfig = EmptyObject
    /\ idx = 0
    /\ row = <<>>
    /\ children = <<>>
    /\ hooks = <<>>
    /\ out = NotRendered
    /\ prevOut = NotRendered
    /\ renders = 0

Init ==
    \E f \in SeqsUpTo(FeatureEntries, MaxFeatures),
       c \in SeqsUpTo(LinkCardEntries, MaxComponents),
       year \in Years, ctx \in Contexts :
        Loaded(f, c, year, ctx)

\* the data index.js ships
InitShipped ==
    \E year \in Years, ctx \in Contexts :
        Loaded(featuresData, componentsData, year, ctx)

(***************************************************************************)
(* Home, step by step.                                                     *)
(***************************************************************************)
\* HomeCall with the children kept in a list that outlives the call
HomeCallKeepsChildren ==
    /\ pc \in {"idle", "done"}
    /\ renders < MaxRenders
    /\ renders' = renders + 1
    /\ prevOut' = out
    /\ siteConfig' = EmptyObject
    /\ idx' = 0
    /\ row' = <<>>
    /\ hooks' = <<>>
    /\ pc' = "context"
    /\ UNCHANGED <<features, components, config, prevConfig, context, out, children>>

\* the framework calls Home (a first render, or a render again)
HomeCall ==
    /\ pc \in {"idle", "done"}
    /\ renders < MaxRenders
    /\ renders' = renders + 1
    /\ prevOut' = out
    /\ siteConfig' = EmptyObject
    /\ idx' = 0
    /\ row' = <<>>
    /\ children' = <<>>
    /\ hooks' = <<>>
    /\ pc' = "context"
    /\ UNCHANGED <<features, components, config, prevConfig, context, out>>

\* UseContext destructuring without the default
UseContextNoDefault ==
    /\ pc = "context"
    /\ hooks' = Append(hooks, "useDocusaurusContext")
    /\ siteConfig' = IF "siteConfig" \in DOMAIN context
                     THEN context.siteConfig ELSE Undefined
    /\ pc' = "hero"
    /\ UNCHANGED <<features, components, config, prevConfig, context, idx, row,
                   children, out, prevOut, renders>>

\* index.js:63-64   const { siteConfig = {} } = useDocusaurusContext()
UseContext ==
    /\ pc = "context"
    /\ hooks' = Append(hooks, "useDocusaurusContext")
    /\ siteConfig' = IF "siteConfig" \in DOMAIN context
                     THEN context.siteConfig ELSE EmptyObject
    /\ pc' = "hero"
    /\ UNCHANGED <<features, components, config, prevConfig, context, idx, row, children,
                   out, prevOut, renders>>

\* HeroSection rendering the hero only when there is something to show below it
HeroSectionWhenData ==
    /\ pc = "hero"
    /\ hooks' = hooks \o << "useBaseUrl:img/logo.svg",
                            "useBaseUrl:docs/create-reacts%20docs/getting-started" >>
    /\ children' = IF Len(features) + Len(components) > 0
                   THEN Append(children,
                               Hero(useBaseUrl("img/logo.svg"),
                                    useBaseUrl("docs/create-reacts%20docs/getting-started"),
                                    siteConfig))
                   ELSE Append(children, False)
    /\ pc' = "featuresGuard"
    /\ UNCHANGED <<features, components, config, prevConfig, context, siteConfig, idx, row,
                   out, prevOut, renders>>

\* index.js:71-89   the hero, with its two useBaseUrl calls in source order
HeroSection ==
    /\ pc = "hero"
    /\ hooks' = hooks \o << "useBaseUrl:img/logo.svg",
                            "useBaseUrl:docs/create-reacts%20docs/getting-started" >>
    /\ children' = Append(children,
                          Hero(useBaseUrl("img/logo.svg"),
                               useBaseUrl("docs/create-reacts%20docs/getting-started"),
                               siteConfig))
    /\ pc' = "featuresGuard"
    /\ UNCHANGED <<features, components, config, prevConfig, context, siteConfig, idx, row,
                   out, prevOut, renders>>

\* FeaturesGuard without the length test
FeaturesGuardAlways ==
    /\ pc = "featuresGuard"
    /\ pc' = "featuresMap"
    /\ idx' = 0
    /\ row' = <<>>
    /\ UNCHANGED <<features, components, config, prevConfig, context, siteConfig, children,
                   hooks, out, prevOut, renders>>

\* index.js:90   features && features.length && ( ... )
\* an array is truthy; a length of 0 is falsy and is the value of the expression
FeaturesGuard ==
    /\ pc = "featuresGuard"
    /\ IF Len(features) # 0
       THEN /\ pc' = "featuresMap"
            /\ idx' = 0
            /\ row' = <<>>
            /\ UNCHANGED children
       ELSE /\ children' = Append(children, Num(Len(features)))
            /\ pc' = "componentsGuard"
            /\ UNCHANGED <<idx, row>>
    /\ UNCHANGED <<features, components, config, prevConfig, context, siteConfig, hooks,
                   out, prevOut, renders>>

\* FeaturesMap with the new card put in front of the row
FeaturesMapPrepend ==
    /\ pc = "featuresMap"
    /\ idx < Len(features)
    /\ row' = <<FeatureCard(features[idx + 1], idx)>> \o row
    /\ idx' = idx + 1
    /\ UNCHANGED <<features, components, config, prevConfig, context, pc, siteConfig,
                   children, hooks, out, prevOut, renders>>

\* index.js:94-99   one call of the callback of features.map
FeaturesMap ==
    /\ pc = "featuresMap"
    /\ idx < Len(features)
    /\ row' = Append(row, FeatureCard(features[idx + 1], idx))
    /\ idx' = idx + 1
    /\ UNCHANGED <<features, components, config, prevConfig, context, pc, siteConfig,
                   children, hooks, out, prevOut, renders>>

\* FeaturesSection evaluating the guarded expression once more
FeaturesSectionAgain ==
    /\ pc = "featuresMap"
    /\ idx = Len(features)
    /\ row' = <<>>
    /\ pc' = "featuresGuard"
    /\ UNCHANGED <<features, components, config, prevConfig, context, siteConfig, idx,
                   children, hooks, out, prevOut, renders>>

\* index.js:91-93,100-102   map has returned: the section wraps its cards
FeaturesSection ==
    /\ pc = "featuresMap"
    /\ idx = Len(features)
    /\ children' = Append(children, Section(row))
    /\ row' = <<>>
    /\ pc' = "componentsGuard"
    /\ UNCHANGED <<features, components, config, prevConfig, context, siteConfig, idx,
                   hooks, out, prevOut, renders>>

\* ComponentsGuard testing the length of the other sequence
ComponentsGuardOnFeatures ==
    /\ pc = "componentsGuard"
    /\ IF Len(features) > 0
       THEN /\ pc' = "componentsMap"
            /\ idx' = 0
            /\ row' = <<>>
            /\ UNCHANGED children
       ELSE /\ children' = Append(children, False)
            /\ pc' = "return"
            /\ UNCHANGED <<idx, row>>
    /\ UNCHANGED <<features, components, config, prevConfig, context, siteConfig, hooks,
                   out, prevOut, renders>>

\* index.js:105   components.length > 0 && ( ... )
\* the comparison is a boolean: false is the value of the expression
ComponentsGuard ==
    /\ pc = "componentsGuard"
    /\ IF Len(components) > 0
       THEN /\ pc' = "componentsMap"
            /\ idx' = 0
            /\ row' = <<>>
            /\ UNCHANGED children
       ELSE /\ children' = Append(children, False)
            /\ pc' = "return"
            /\ UNCHANGED <<idx, row>>
    /\ UNCHANGED <<features, components, config, prevConfig, context, siteConfig, hooks,
                   out, prevOut, renders>>

\* ComponentsMap resolving each url with the useBaseUrl hook inside the callback
ComponentsMapWithHook ==
    /\ pc = "componentsMap"
    /\ idx < Len(components)
    /\ hooks' = Append(hooks, "useBaseUrl:" \o components[idx + 1].url)
    /\ row' = Append(row, LinkCard(components[idx + 1], idx))
    /\ idx' = idx + 1
    /\ UNCHANGED <<features, components, config, prevConfig, context, pc,
                   siteConfig, children, out, prevOut, renders>>

\* ComponentsMap leaving out an entry equal to the one before it
ComponentsMapDedup ==
    /\ pc = "componentsMap"
    /\ idx < Len(components)
    /\ row' = IF idx > 0 /\ components[idx + 1] = components[idx]
              THEN row
              ELSE Append(row, LinkCard(components[idx + 1], idx))
    /\ idx' = idx + 1
    /\ UNCHANGED <<features, components, config, prevConfig, context, pc, siteConfig,
                   children, hooks, out, prevOut, renders>>

\* index.js:109-119   one call of the callback of components.map
ComponentsMap ==
    /\ pc = "componentsMap"
    /\ idx < Len(components)
    /\ row' = Append(row, LinkCard(components[idx + 1], idx))
    /\ idx' = idx + 1
    /\ UNCHANGED <<features, components, config, prevConfig, context, pc, siteConfig,
                   children, hooks, out, prevOut, renders>>

\* ComponentsSection putting the array in display order in place
\* (components.reverse() mutates the module-level array)
ComponentsSectionReversingData ==
    /\ pc = "componentsMap"
    /\ idx = Len(components)
    /\ children' = Append(children, Section(row))
    /\ components' = [i \in 1..Len(components) |-> components[Len(components) + 1 - i]]
    /\ row' = <<>>
    /\ pc' = "return"
    /\ UNCHANGED <<features, config, prevConfig, context, siteConfig, idx,
                   hooks, out, prevOut, renders>>

\* index.js:106-108,120-122   map has returned: the section wraps its cards
ComponentsSection ==
    /\ pc = "componentsMap"
    /\ idx = Len(components)
    /\ children' = Append(children, Section(row))
    /\ row' = <<>>
    /\ pc' = "return"
    /\ UNCHANGED <<features, components, config, prevConfig, context, siteConfig, idx,
                   hooks, out, prevOut, renders>>

\* index.js:66-70,124-125   return <Layout ...>{children}</Layout>
Return ==
    /\ pc = "return"
    /\ out' = LayoutElement(children)
    /\ pc' = "done"
    /\ UNCHANGED <<features, components, config, prevConfig, context, siteConfig, idx, row,
                   children, hooks, prevOut, renders>>

\* docusaurus.config.js:6-204   the generator evaluates the configuration
\* module again (a later build, a restart of the dev server), in the same
\* year or a later one; the context it hands to Home carries the new record
LoadConfig ==
    /\ pc \in {"idle", "done"}
    /\ \E y0 \in Years, year \in Years :
          /\ config = Config(y0)
          /\ year >= y0
          /\ config' = Config(year)
    /\ prevConfig' = config
    /\ context' = IF "siteConfig" \in DOMAIN context
                  THEN [siteConfig |-> config'] ELSE context
    /\ UNCHANGED <<features, components, pc, siteConfig, idx, row, children,
                   hooks, out, prevOut, renders>>

Next ==
    \/ HomeCall
    \/ UseContext
    \/ HeroSection
    \/ FeaturesGuard
    \/ FeaturesMap
    \/ FeaturesSection
    \/ ComponentsGuard
    \/ ComponentsMap
    \/ ComponentsSection
    \/ Return

Spec == Init /\ [][Next]_vars

\* the site: builds evaluate the configuration, pages render
NextSite ==
    \/ LoadConfig
    \/ Next

SpecSite == InitShipped /\ [][NextSite]_vars

SpecShipped == InitShipped /\ [][Next]_vars

(***************************************************************************)
(* Reading the returned tree.                                              *)
(***************************************************************************)
\* Home has returned and has not been called again: out is its result
Rendered == pc = "done" /\ out # NotRendered

\* the children of <Layout>, in order
Slots == out.children

IsElement(n) == "children" \in DOMAIN n

ClassOf(n) ==
    IF IsElement(n) /\ "className" \in DOMAIN n.props THEN n.props.className ELSE ""

IsHero(n) == IsElement(n) /\ n.tag = "div" /\ ClassOf(n) = "hero hero--dark heroBanner"

\* a grid: div.features > div.container > div.row > cards
IsSection(n) ==
    /\ IsElement(n) /\ n.tag = "div" /\ ClassOf(n) = "features"
    /\ Len(n.children) = 1 /\ ClassOf(n.children[1]) = "container"
    /\ Len(n.children[1].children) = 1
    /\ ClassOf(n.children[1].children[1]) = "row"

Cards(n) == n.children[1].children[1].children

IsCard(c) == IsElement(c) /\ c.tag = "div" /\ ClassOf(c) = "col col--4 feature"

\* a feature card: h2 and p directly under the column
IsFeatureCard(c) ==
    /\ IsCard(c) /\ Len(c.children) = 2
    /\ c.children[1].tag = "h2" /\ c.children[2].tag = "p"

\* a link card: one div.card under the column
IsLinkCard(c) ==
    /\ IsCard(c) /\ Len(c.children) = 1
    /\ c.children[1].tag = "div" /\ ClassOf(c.children[1]) = "card"

IsFeatureGrid(n) ==
    IsSection(n) /\ \A i \in 1..Len(Cards(n)) : IsFeatureCard(Cards(n)[i])

IsLinkGrid(n) ==
    IsSection(n) /\ \A i \in 1..Len(Cards(n)) : IsLinkCard(Cards(n)[i])

FeatureGridSlots == { k \in 1..Len(Slots) : IsFeatureGrid(Slots[k]) }
LinkGridSlots == { k \in 1..Len(Slots) : IsLinkGrid(Slots[k]) }

RECURSIVE Flatten(_)
Flatten(ss) == IF ss = <<>> THEN <<>> ELSE Head(ss) \o Flatten(Tail(ss))

\* every <Link> element of a subtree, in document order
RECURSIVE Anchors(_)
Anchors(n) ==
    IF ~IsElement(n) THEN <<>>
    ELSE (IF n.tag = "Link" THEN <<n>> ELSE <<>>)
         \o Flatten([i \in 1..Len(n.children) |-> Anchors(n.children[i])])

\* a card without its key
StripKey(c) == [f \in DOMAIN c \ {"key"} |-> c[f]]

(***************************************************************************)
(* Claims.                                                                 *)
(***************************************************************************)

\* C1: for a non-empty features sequence of length N the returned tree holds
\* exactly one feature grid, the grid holds exactly N cards, and for every i
\* the i-th card shows the title (h2) and the content (p) of the i-th entry.
C1_FeatureGridShowsEveryEntryInOrder ==
    (Rendered /\ Len(features) > 0) =>
        /\ Cardinality(FeatureGridSlots) = 1
        /\ \A k \in FeatureGridSlots :
              /\ Len(Cards(Slots[k])) = Len(features)
              /\ \A i \in 1..Len(features) :
                    /\ Cards(Slots[k])[i].children[1] =
                          Element("h2", EmptyObject, << Text(features[i].title) >>)
                    /\ Cards(Slots[k])[i].children[2] =
                          Element("p", EmptyObject, << Text(features[i].content) >>)

\* a render of two features that differ has returned
C1_Witness ==
    /\ Rendered
    /\ Len(features) >= 2 /\ features[1] # features[2]
    /\ FeatureGridSlots # {}

\* C2: for a non-empty components sequence of length N the returned tree
\* holds exactly one link-card grid with exactly N cards in input order, and
\* the i-th card holds exactly one anchor, labelled "Visit website", whose
\* target is the url of the i-th entry, character for character.
C2_LinkGridAnchorsTargetEntryUrl ==
    (Rendered /\ Len(components) > 0) =>
        /\ Cardinality(LinkGridSlots) = 1
        /\ \A k \in LinkGridSlots :
              /\ Len(Cards(Slots[k])) = Len(components)
              /\ \A i \in 1..Len(components) :
                    LET card == Cards(Slots[k])[i] IN
                    /\ card.children[1].children[1] =
                          Element("h3", EmptyObject, << Text(components[i].title) >>)
                    /\ card.children[1].children[2] =
                          Element("p", EmptyObject, << Text(components[i].content) >>)
                    /\ Len(Anchors(card)) = 1
                    /\ Anchors(card)[1].children = << Text("Visit website") >>
                    /\ Anchors(card)[1].props.to = components[i].url

\* a render of two equal link entries has returned
C2_Witness ==
    /\ Rendered
    /\ Len(components) >= 2 /\ components[1] = components[2]
    /\ LinkGridSlots # {}

\* C3: for an empty features sequence no child of the returned tree is a
\* feature section.
C3_NoFeatureSectionWhenEmpty ==
    (Rendered /\ features = <<>>) => FeatureGridSlots = {}

\* a render with no feature and with link cards has returned
C3_Witness ==
    /\ Rendered
    /\ features = <<>> /\ components # <<>>

\* C4: the returned tree holds a link-card grid exactly when components is
\* not empty; for an empty components sequence it holds none, whether
\* features is empty or not.
C4_LinkGridIffComponentsNonEmpty ==
    Rendered => ((LinkGridSlots # {}) <=> (Len(components) > 0))

\* a render with features and without components has returned
C4_Witness ==
    /\ Rendered
    /\ components = <<>> /\ features # <<>>
    /\ LinkGridSlots = {}

\* C5: a Home call made again with the same features, components, context
\* and base URL returns a tree equal to the one the call before returned.
C5_RenderIdempotent ==
    (Rendered /\ prevOut # NotRendered) => out = prevOut

\* a second render of non-empty sequences has returned
C5_Witness ==
    /\ Rendered /\ renders >= 2
    /\ prevOut # NotRendered
    /\ features # <<>> /\ components # <<>>

\* C6: the hero is the first child of every returned tree and the only hero;
\* a feature grid, when there is one, comes after the hero and before any
\* link-card grid; a link-card grid, when there is one, is the last child.
C6_HeroThenFeaturesThenLinks ==
    Rendered =>
        /\ Len(Slots) >= 1
        /\ { k \in 1..Len(Slots) : IsHero(Slots[k]) } = {1}
        /\ \A i \in FeatureGridSlots : i > 1
        /\ \A i \in FeatureGridSlots : \A j \in LinkGridSlots : i < j
        /\ \A j \in LinkGridSlots : j = Len(Slots)

\* a render of two empty sequences has returned: the hero is there
C6_WitnessHeroAlone ==
    /\ Rendered
    /\ features = <<>> /\ components = <<>>
    /\ IsHero(Slots[1])

\* the cards of a grid, as a sequence
GridCards(gridSlots) == IF gridSlots = {} THEN <<>> ELSE Cards(Slots[CHOOSE k \in gridSlots : TRUE])

\* cards of a grid are keyed 0..N-1 by position, and a card's content is that
\* of the entry at its position whatever the position is
KeyedByPosition(cards, entries, Callback(_, _)) ==
    /\ Len(cards) = Len(entries)
    /\ \A i \in 1..Len(cards) : "key" \in DOMAIN cards[i] /\ cards[i].key = i - 1
    /\ \A i, j \in 1..Len(cards) : i # j => cards[i] # cards[j]
    /\ \A p \in Permutations(1..Len(entries)) :
          \A i \in 1..Len(entries) :
              StripKey(Callback(entries[p[i]], i - 1)) = StripKey(cards[p[i]])

\* C7: in each grid the keys are 0..N-1 in order, so pairwise distinct; two
\* equal entries give two distinct cards; and a card shows the entry at its
\* own position, so the cards of a permuted sequence are the permuted cards.
C7_CardsKeyedByPosition ==
    Rendered =>
        /\ KeyedByPosition(GridCards(FeatureGridSlots), features, FeatureCard)
        /\ KeyedByPosition(GridCards(LinkGridSlots), components, LinkCard)

\* a render of two equal features and of two equal link entries has returned
C7_Witness ==
    /\ Rendered
    /\ Len(features) >= 2 /\ features[1] = features[2]
    /\ Len(components) >= 2 /\ components[1] = components[2]
    /\ Len(GridCards(FeatureGridSlots)) >= 2

\* C8: Home has no error outcome and never looks at a url: every entry, its
\* url an absolute URL or not, gets its card, and the target of the card's
\* anchor is the url as given.
C8_NoUrlValidation ==
    /\ pc \in {"idle", "context", "hero", "featuresGuard", "featuresMap",
               "componentsGuard", "componentsMap", "return", "done"}
    /\ pc = "componentsMap" =>
          /\ Len(row) = idx
          /\ \A i \in 1..Len(row) : Anchors(row[i])[1].props.to = components[i].url
    /\ (Rendered /\ components # <<>>) =>
          /\ Len(GridCards(LinkGridSlots)) = Len(components)
          /\ \A i \in 1..Len(components) :
                Anchors(GridCards(LinkGridSlots)[i])[1].props.to = components[i].url

\* a render whose entries hold a malformed url and an empty url has returned
C8_Witness ==
    /\ Rendered
    /\ \E i \in 1..Len(components) :
          components[i].url # "" /\ ~IsAbsoluteUrl(components[i].url)
    /\ \E i \in 1..Len(components) : components[i].url = ""
    /\ Len(GridCards(LinkGridSlots)) = Len(components)

(***************************************************************************)
(* Reading the configuration record.                                       *)
(***************************************************************************)
NavbarItems == config.themeConfig.navbar.items

FooterItems ==
    Flatten([g \in 1..Len(config.themeConfig.footer.links) |->
                config.themeConfig.footer.links[g].items])

LinkItems == { NavbarItems[i] : i \in 1..Len(NavbarItems) }
                \cup { FooterItems[i] : i \in 1..Len(FooterItems) }

HasInternalRoute(item) == "to" \in DOMAIN item /\ IsInternalRoute(item.to)

HasExternalUrl(item) == "href" \in DOMAIN item /\ IsAbsoluteUrl(item.href)

\* an item that names a docs sidebar and leaves its target to the generator
IsDocSidebarItem(item) ==
    /\ "type" \in DOMAIN item /\ item.type = "docSidebar"
    /\ "sidebarId" \in DOMAIN item
    /\ "to" \notin DOMAIN item /\ "href" \notin DOMAIN item

\* C9 as stated: every navbar item and every footer item has a 'to' that is
\* an internal route or an 'href' that is an absolute URL, never neither and
\* never both.
C9_Original_EveryItemHasToOrHref ==
    \A item \in LinkItems :
        /\ HasInternalRoute(item) \/ HasExternalUrl(item)
        /\ ~("to" \in DOMAIN item /\ "href" \in DOMAIN item)

\* C9 (amended): every navbar item and every footer item has a 'to' that is
\* an internal route, or an 'href' that is an absolute URL, or is a
\* docSidebar item that names a sidebar and has neither; none has both.
C9_EveryItemResolves ==
    \A item \in LinkItems :
        /\ HasInternalRoute(item) \/ HasExternalUrl(item) \/ IsDocSidebarItem(item)
        /\ ~("to" \in DOMAIN item /\ "href" \in DOMAIN item)

\* the configuration is loaded with items of each of the three kinds
C9_Witness ==
    /\ \E item \in LinkItems : IsDocSidebarItem(item)
    /\ \E i \in 1..Len(NavbarItems) : HasInternalRoute(NavbarItems[i])
    /\ \E i \in 1..Len(NavbarItems) : HasExternalUrl(NavbarItems[i])
    /\ \E i \in 1..Len(FooterItems) : HasExternalUrl(FooterItems[i])

\* C10: every entry of the shipped components sequence has exactly a title,
\* a content and a url, and the url is an absolute URL (scheme and host);
\* every entry of the shipped features sequence has exactly a title and a
\* content.
C10_ShippedEntriesWellFormed ==
    /\ \A i \in 1..Len(components) :
          /\ DOMAIN components[i] = {"title", "content", "url"}
          /\ components[i].title # "" /\ components[i].content # ""
          /\ IsAbsoluteUrl(components[i].url)
    /\ \A i \in 1..Len(features) :
          /\ DOMAIN features[i] = {"title", "content"}
          /\ features[i].title # "" /\ features[i].content # ""

\* the shipped data is loaded and rendered: six link cards, three features
C10_Witness ==
    /\ Rendered
    /\ Len(components) = Len(componentsData) /\ Len(features) = Len(featuresData)
    /\ Len(GridCards(LinkGridSlots)) = Len(components)
    /\ \E i \in 1..Len(components) :
          components[i].url = "https://firebase.google.com/docs/flutter/setup?platform=ios"

(***************************************************************************)
(* What a child position contributes to the page.                          *)
(***************************************************************************)
\* React renders a number or a string in child position as text and skips
\* false and undefined; an element contributes itself
Contribution(v) ==
    IF v.tag \in {"#false", "#undefined"} THEN <<>>
    ELSE IF v.tag = "#number" THEN << Text(ToString(v.value)) >>
    ELSE << v >>

\* the values of the two guarded expressions of the last return
FeaturesExpression == Slots[2]
ComponentsExpression == Slots[3]

\* C11: both guards are "render iff length > 0": each contributes its section
\* when its sequence is not empty and contributes nothing at all, no node
\* and no text, when its sequence is empty.
C11_GuardsRenderIffNonEmpty ==
    Rendered =>
        /\ Len(Slots) = 3
        /\ IF Len(features) > 0
           THEN Contribution(FeaturesExpression) = << FeaturesExpression >>
                   /\ IsFeatureGrid(FeaturesExpression)
           ELSE Contribution(FeaturesExpression) = <<>>
        /\ IF Len(components) > 0
           THEN Contribution(ComponentsExpression) = << ComponentsExpression >>
                   /\ IsLinkGrid(ComponentsExpression)
           ELSE Contribution(ComponentsExpression) = <<>>

\* the only calls Home makes out of its own module
HookNames ==
    { "useDocusaurusContext", "useBaseUrl:img/logo.svg",
      "useBaseUrl:docs/create-reacts%20docs/getting-started" }

\* C12: no step of Home changes features or components (same length, same
\* entries, same order after any number of renders), and the only calls a
\* render makes out of its module are the framework hooks: nothing fetches
\* and nothing stores.
C12_HomeLeavesDataUnchanged ==
    [][ /\ features' = features
        /\ components' = components
        /\ \A i \in 1..Len(hooks') : hooks'[i] \in HookNames ]_vars

\* two renders of two differing link entries have returned
C12_Witness ==
    /\ Rendered /\ renders >= 2
    /\ Len(components) >= 2 /\ components[1] # components[2]
    /\ features # <<>>

\* grids of one to MaxGridCards equal cards, to see rows fill and wrap
MaxGridCards == 7

InitGrid ==
    \E n \in 0..MaxGridCards, m \in 0..MaxGridCards :
        Loaded([i \in 1..n |-> featuresData[1]],
               [i \in 1..m |-> componentsData[1]], 2026, "withSiteConfig")

SpecGrid == InitGrid /\ [][Next]_vars

(***************************************************************************)
(* A call of Home runs synchronously: once called, its next step is taken. *)
(* When the framework calls Home is left open.                             *)
(***************************************************************************)
HomeStep ==
    \/ UseContext
    \/ HeroSection
    \/ FeaturesGuard
    \/ FeaturesMap
    \/ FeaturesSection
    \/ ComponentsGuard
    \/ ComponentsMap
    \/ ComponentsSection
    \/ Return

\* one context, one year: the course of a call depends on the sequences only
InitRun ==
    \E f \in SeqsUpTo(FeatureEntries, MaxFeatures),
       c \in SeqsUpTo(LinkCardEntries, MaxComponents) :
        Loaded(f, c, 2026, "withSiteConfig")

SpecRun == InitRun /\ [][Next]_vars /\ WF_vars(HomeStep)

\* position of a step in the body of Home
Position(p) ==
    CASE p = "idle" -> 0
      [] p = "context" -> 1
      [] p = "hero" -> 2
      [] p = "featuresGuard" -> 3
      [] p = "featuresMap" -> 4
      [] p = "componentsGuard" -> 5
      [] p = "componentsMap" -> 6
      [] p = "return" -> 7
      [] p = "done" -> 8

Running == pc \notin {"idle", "done"}

\* C13: a call of Home, once started, returns; inside a call control only
\* moves forward (no retry, no wait, no re-entry), and each map calls its
\* callback on entries 1, 2, ... N in turn, once each.
C13_HomeRunsToCompletion ==
    /\ (Running ~> pc = "done")
    /\ [][ /\ Running => ( Position(pc') > Position(pc)
                           \/ (pc' = pc /\ pc \in {"featuresMap", "componentsMap"}
                                 /\ idx' = idx + 1 /\ Len(row') = Len(row) + 1) )
           /\ (pc = "featuresMap" /\ pc' # pc) => (idx = Len(features) /\ Len(row) = idx)
           /\ (pc = "componentsMap" /\ pc' # pc) => (idx = Len(components) /\ Len(row) = idx)
           /\ (pc \in {"featuresGuard", "componentsGuard"} /\ pc' \in {"featuresMap", "componentsMap"})
                 => (idx' = 0 /\ row' = <<>>) ]_vars

\* a call over two features and two link entries has returned
C13_Witness ==
    /\ Rendered
    /\ Len(features) >= 2 /\ Len(components) >= 2
    /\ Len(GridCards(FeatureGridSlots)) = Len(features)
    /\ Len(GridCards(LinkGridSlots)) = Len(components)
    /\ hooks # <<>>

FooterGroups == config.themeConfig.footer.links

FooterGroupWellFormed(g) ==
    /\ "title" \in DOMAIN g /\ g.title # ""
    /\ "items" \in DOMAIN g
    /\ \A i \in 1..Len(g.items) :
          /\ DOMAIN g.items[i] = {"label", "href"}
          /\ g.items[i].label # ""

HasLabelAndPosition(item) ==
    /\ "label" \in DOMAIN item /\ item.label # ""
    /\ "position" \in DOMAIN item /\ item.position \in {"left", "right"}

\* C14 as stated: every navbar item has a label, a target ('to' or 'href')
\* and a position 'left' or 'right'; every footer group has a title and
\* items made of a label and an href.
C14_Original_NavbarItemsHaveTarget ==
    /\ \A i \in 1..Len(NavbarItems) :
          /\ HasLabelAndPosition(NavbarItems[i])
          /\ "to" \in DOMAIN NavbarItems[i] \/ "href" \in DOMAIN NavbarItems[i]
    /\ \A g \in 1..Len(FooterGroups) : FooterGroupWellFormed(FooterGroups[g])

\* C14 (amended): every navbar item has a label and a position 'left' or
\* 'right', and either a target ('to' or 'href') or, being a docSidebar item,
\* the id of a sidebar; every footer group has a title and items made of a
\* label and an href.
C14_ItemsWellFormed ==
    /\ \A i \in 1..Len(NavbarItems) :
          /\ HasLabelAndPosition(NavbarItems[i])
          /\ \/ "to" \in DOMAIN NavbarItems[i]
             \/ "href" \in DOMAIN NavbarItems[i]
             \/ IsDocSidebarItem(NavbarItems[i])
    /\ \A g \in 1..Len(FooterGroups) : FooterGroupWellFormed(FooterGroups[g])

\* the configuration is loaded: items on both sides of the navbar, one of
\* them a docSidebar item, and footer groups with their items
C14_Witness ==
    /\ \E i \in 1..Len(NavbarItems) : NavbarItems[i].position = "left"
    /\ \E i \in 1..Len(NavbarItems) : NavbarItems[i].position = "right"
    /\ \E i \in 1..Len(NavbarItems) : IsDocSidebarItem(NavbarItems[i])
    /\ Len(FooterGroups) >= 2
    /\ \A g \in 1..Len(FooterGroups) : Len(FooterGroups[g].items) >= 1

\* the year a configuration record was evaluated in
YearOf(c) == CHOOSE y \in Years : c = Config(y)

WithoutCopyright(c) == [c EXCEPT !.themeConfig.footer.copyright = ""]

\* C15 as stated: two evaluations of the configuration module yield
\* identical records, whatever the moment of each.
C15_Original_ConfigStatic ==
    prevConfig # NotEvaluated => config = prevConfig

\* C15 (amended): two evaluations yield records equal in every field but
\* themeConfig.footer.copyright, which carries the year of the evaluation:
\* the records are identical exactly when the two years are the same.
C15_ConfigStaticButCopyrightYear ==
    prevConfig # NotEvaluated =>
        /\ WithoutCopyright(config) = WithoutCopyright(prevConfig)
        /\ (config = prevConfig) <=> (YearOf(config) = YearOf(prevConfig))
        /\ config.themeConfig.footer.copyright =
              "Copyright (c) " \o ToString(YearOf(config)) \o " Facebook, Inc."

\* the configuration has been evaluated in one year and again in a later one
C15_Witness ==
    /\ prevConfig # NotEvaluated
    /\ YearOf(prevConfig) < YearOf(config)

(***************************************************************************)
(* The grid: div.row is a wrapping row of 12 columns and a child of class  *)
(* col--N takes N of them.                                                 *)
(***************************************************************************)
DigitValue(c) ==
    CASE c = "0" -> 0 [] c = "1" -> 1 [] c = "2" -> 2 [] c = "3" -> 3
      [] c = "4" -> 4 [] c = "5" -> 5 [] c = "6" -> 6 [] c = "7" -> 7
      [] c = "8" -> 8 [] c = "9" -> 9

\* N of the class name col--N of an element (one or two digits)
ColSpan(c) ==
    LET cls == ClassOf(c)
        at == CHOOSE i \in 1..(Len(cls) - 5) : SubSeq(cls, i, i + 4) = "col--"
        d1 == Char(cls, at + 5)
        d2 == IF at + 6 <= Len(cls) THEN Char(cls, at + 6) ELSE " "
    IN  IF d2 \in Digit THEN 10 * DigitValue(d1) + DigitValue(d2) ELSE DigitValue(d1)

\* where the k-th card of a row container lands: a card goes after the one
\* before it when it still fits in the 12 columns, else it opens a new line
RECURSIVE PlaceAt(_, _)
PlaceAt(cards, k) ==
    IF k = 1 THEN [line |-> 0, nth |-> 0, start |-> 0]
    ELSE LET prev == PlaceAt(cards, k - 1)
             free == prev.start + ColSpan(cards[k - 1])
         IN  IF free + ColSpan(cards[k]) <= 12
             THEN [line |-> prev.line, nth |-> prev.nth + 1, start |-> free]
             ELSE [line |-> prev.line + 1, nth |-> 0, start |-> 0]

ThreeColumnGrid(cards) ==
    /\ \A k \in 1..Len(cards) :
          /\ ColSpan(cards[k]) = 4
          /\ PlaceAt(cards, k).line = (k - 1) \div 3
          /\ PlaceAt(cards, k).nth = (k - 1) % 3
    /\ Len(cards) > 0 => PlaceAt(cards, Len(cards)).line + 1 = (Len(cards) + 2) \div 3

\* C16: every feature card and every link card takes 4 of the 12 columns of
\* its row container: the card at index i lands on visual line i div 3 at
\* place i mod 3, and N cards take ceil(N/3) lines of at most 3 cards.
C16_GridsAreThreeColumns ==
    Rendered =>
        /\ features # <<>> =>
              /\ Len(Cards(FeaturesExpression)) = Len(features)
              /\ ThreeColumnGrid(Cards(FeaturesExpression))
        /\ components # <<>> =>
              /\ Len(Cards(ComponentsExpression)) = Len(components)
              /\ ThreeColumnGrid(Cards(ComponentsExpression))

\* a render of seven link cards and four features has returned: the seventh
\* link card opens the third line
C16_Witness ==
    /\ Rendered
    /\ Len(features) = 4 /\ Len(components) = 7
    /\ PlaceAt(Cards(ComponentsExpression), 7) = [line |-> 2, nth |-> 0, start |-> 0]
    /\ PlaceAt(Cards(FeaturesExpression), 4).line = 1

(***************************************************************************)
(* Reading the hero.                                                       *)
(***************************************************************************)
HeroOf(tree) == tree.children[1]
HeroTitle == HeroOf(out).children[1].children[2].children
HeroTagline == HeroOf(out).children[1].children[3].children

\* C17: the hero holds exactly one link, labelled 'Get Started', whose target
\* is the base URL joined with 'docs/create-reacts%20docs/getting-started',
\* whatever features and components are; its title and tagline are those of
\* Home's siteConfig, which is the site configuration when the context
\* carries it.
C17_HeroCallToActionFixed ==
    Rendered =>
        /\ IsHero(HeroOf(out))
        /\ Len(Anchors(HeroOf(out))) = 1
        /\ Anchors(HeroOf(out))[1].children = << Text("Get Started") >>
        /\ Anchors(HeroOf(out))[1].props.to =
              config.baseUrl \o "docs/create-reacts%20docs/getting-started"
        /\ Anchors(HeroOf(out))[1].props.to = "/docs/create-reacts%20docs/getting-started"
        /\ HeroTitle = << Member(siteConfig, "title") >>
        /\ HeroTagline = << Member(siteConfig, "tagline") >>
        /\ "siteConfig" \in DOMAIN context =>
              /\ HeroTitle = << Text("Create React App") >>
              /\ HeroTitle = << Text(config.title) >>
              /\ HeroTagline = << Text(config.tagline) >>

\* a render with the site configuration and with link cards has returned
C17_Witness ==
    /\ Rendered
    /\ "siteConfig" \in DOMAIN context
    /\ components # <<>> /\ components[1].url # ""
    /\ Len(Anchors(HeroOf(out))) = 1

\* what the two guarded expressions give, from the sequences alone
ExpectedFeatures ==
    IF features = <<>> THEN Num(0)
    ELSE Section([i \in 1..Len(features) |-> FeatureCard(features[i], i - 1)])

ExpectedComponents ==
    IF components = <<>> THEN False
    ELSE Section([i \in 1..Len(components) |-> LinkCard(components[i], i - 1)])

\* C18: with a context that carries no siteConfig, Home takes the empty
\* record and returns as usual: the hero is there with nothing in its title
\* and tagline, and the two grids are what they are with a siteConfig, that
\* is what the sequences alone make them.
C18_MissingSiteConfigDefaultsToEmpty ==
    /\ ("siteConfig" \notin DOMAIN context /\ Position(pc) >= 2)
          => siteConfig = EmptyObject
    /\ Rendered =>
          /\ Len(Slots) = 3
          /\ Slots[2] = ExpectedFeatures
          /\ Slots[3] = ExpectedComponents
          /\ "siteConfig" \notin DOMAIN context =>
                /\ IsHero(HeroOf(out))
                /\ HeroTitle = << Undefined >>
                /\ HeroTagline = << Undefined >>
                /\ Contribution(HeroTitle[1]) = <<>>
                /\ Contribution(HeroTagline[1]) = <<>>

\* a render without siteConfig, with features and link cards, has returned
C18_Witness ==
    /\ Rendered
    /\ "siteConfig" \notin DOMAIN context
    /\ features # <<>> /\ components # <<>>
    /\ IsHero(HeroOf(out))

\* the hook calls a Home call has made when it stands at a position
HooksAt(p) ==
    IF Position(p) <= 1 THEN <<>>
    ELSE IF Position(p) = 2 THEN << "useDocusaurusContext" >>
    ELSE << "useDocusaurusContext", "useBaseUrl:img/logo.svg",
            "useBaseUrl:docs/create-reacts%20docs/getting-started" >>

\* C19: every Home call makes the same hook calls in the same order, the
\* context hook, useBaseUrl for the logo, useBaseUrl for the Get Started
\* route, each once, whether the sequences are empty or not: the guards and
\* the map callbacks add none.
C19_HooksSameOrderEveryCall ==
    hooks = HooksAt(pc)

\* a second render, of no feature and of two link cards, has returned with
\* its three hook calls
C19_Witness ==
    /\ Rendered /\ renders >= 2
    /\ features = <<>> /\ Len(components) >= 2
    /\ Len(hooks) = 3

\* C20: the list of locales of the configuration is not empty, holds no
\* locale twice and holds the default locale.
C20_LocalesHoldDefault ==
    LET locales == config.i18n.locales IN
    /\ Len(locales) >= 1
    /\ \A i, j \in 1..Len(locales) : i # j => locales[i] # locales[j]
    /\ \E i \in 1..Len(locales) : locales[i] = config.i18n.defaultLocale

\* the configuration has been evaluated, and evaluated again: 'en' alone
C20_Witness ==
    /\ prevConfig # NotEvaluated
    /\ config.i18n.defaultLocale = "en"
    /\ config.i18n.locales = << "en" >>
====
